---- MODULE Spec2Model ----
(***************************************************************************)
(* Model of ubc/canvas-course-page-view-count.                             *)
(*                                                                         *)
(*   index.py                          make_request (paginated fetcher),   *)
(*                                     get_course, get_course_students,    *)
(*                                     get_student_activity,               *)
(*                                     process_course (harvester),         *)
(*                                     main (batch driver, thread pool)    *)
(*   process_into_page_views_by_day.py convert_to_vancouver_time,          *)
(*                                     process_csv (aggregator),           *)
(*                                     process_directory                   *)
(*                                                                         *)
(* Specifications:                                                         *)
(*   SpecFetch   one make_request call, one loop iteration per step        *)
(*   SpecCourse  one process_course call, one request / file write a step  *)
(*   Spec        main: ThreadPoolExecutor workers running process_course   *)
(*   SpecAgg     one process_csv call                                      *)
(*   SpecDir     one process_directory call, one file a step               *)
(*   SpecName    process_course up to the output file name                 *)
(*   SpecFetchLive  SpecFetch with weak fairness of the call's steps       *)
(***************************************************************************)
EXTENDS Integers, Sequences, FiniteSets, TLC

VARIABLES
    \* ---- make_request (SpecFetch) ----
    server,          \* the server's pages: server[u] is the response to URL u
    params,          \* the caller's params argument
    url,             \* make_request's url (0: falsy)
    current_params,  \* make_request's current_params
    all_items,       \* make_request's all_items
    page_count,      \* make_request's page_count
    fpc,             \* position in make_request
    requests,        \* requests.get calls issued so far: <<url, params>>
    sleeps           \* time.sleep(0.2) calls so far

fvars == <<server, params, url, current_params, all_items, page_count, fpc,
           requests, sleeps>>

VARIABLES
    \* ---- process_course and main (SpecCourse, Spec) ----
    course_ids,      \* main's course_ids; task t is process_course(course_ids[t])
    tasks,           \* tasks[t]: the locals and position of task t
    files,           \* the output directory: path -> rows of the file
    num_threads,     \* args.threads
    queue,           \* the executor's work queue (task numbers)
    worker,          \* worker[w]: the task worker thread w is running, 0 if none
    submitted,       \* how many tasks executor.map has submitted
    dpc              \* position in main

dvars == <<course_ids, num_threads, queue, worker, submitted, dpc>>
hvars == <<dvars, tasks, files>>

VARIABLES
    \* ---- process_csv (SpecAgg) ----
    columns,         \* the header line of the input CSV file (<<>>: no line)
    raw,             \* the data rows of the input CSV file
    df,              \* process_csv's df
    out,             \* the output file processed_<input file name>
    apc              \* position in process_csv

csvvars == <<columns, raw, df, out, apc>>

VARIABLES
    \* ---- process_directory (SpecDir) ----
    input_dir,       \* the files of input_dir, in os.listdir order
    csv_files,       \* process_directory's csv_files
    outputs,         \* the files of output_dir: file name -> content
    ci,              \* how many of csv_files the loop has gone through
    ppc              \* position in process_directory

pvars == <<input_dir, csv_files, outputs, ci, ppc>>

avars == <<csvvars, pvars>>

vars == <<fvars, hvars, avars>>

(***************************************************************************)
(* Bounds                                                                  *)
(***************************************************************************)
MaxPages == 3
MaxItems == 2
MaxStudents == 3
MaxCourses == 2
MaxThreads == 2
MaxRows == 2

(***************************************************************************)
(* JSON values.  A dict is a record with kind "dict" and its keys as       *)
(* fields, a list is [kind |-> "list", elems |-> <<...>>], anything else   *)
(* (string, number, null) is a scalar.                                     *)
(***************************************************************************)
IsDict(v) == v.kind = "dict"
IsList(v) == v.kind = "list"
JList(s) == [kind |-> "list", elems |-> s]
JScalar(n) == [kind |-> "scalar", v |-> n]

\* The j-th element of the array served at URL u: elements are pairwise
\* distinct, so a dropped, duplicated or reordered item shows.
PageElem(u, j) == [kind |-> "dict", id |-> 10 * u + j]
PageObject(u) == [kind |-> "dict", id |-> 10 * u]

(***************************************************************************)
(* One HTTP exchange as requests.get sees it.                              *)
(*   net    "resp" | "timeout" (requests.exceptions.Timeout)               *)
(*          | "neterr" (any other RequestException raised by requests.get) *)
(*   status the HTTP status code of a response                             *)
(*   body   "json" | "empty" (whitespace only) | "invalid" (not JSON)      *)
(*   data   the parsed JSON value of a "json" body                         *)
(*   next   response.links['next']['url'] as a URL number, 0 when absent   *)
(***************************************************************************)
NoData == JScalar(0)
Resp(st, b, d, n) == [net |-> "resp", status |-> st, body |-> b, data |-> d, next |-> n]
TimeoutPage == [net |-> "timeout", status |-> 0, body |-> "empty", data |-> NoData, next |-> 0]
NetErrPage == [net |-> "neterr", status |-> 0, body |-> "empty", data |-> NoData, next |-> 0]

\* response.raise_for_status(): HTTPError for 4xx and 5xx, nothing otherwise
RaiseForStatus(status) == status >= 400 /\ status < 600

\* items = data if isinstance(data, list) else [data]
ItemsFlattened(data) == IF IsList(data) THEN data.elems ELSE <<>>
Items(data) == IF IsList(data) THEN data.elems ELSE <<data>>

\* What one pass through the body of the while loop does with response p:
\*   "timeout"  except Timeout: break
\*   "raise"    except RequestException: raise, or the ValueError re-raised
\*   "empty"    empty body: break
\*   "next"     items taken, next link followed
\*   "last"     items taken, no next link: break
PageOutcomeTimeoutRaises(p) ==
    CASE p.net = "timeout" -> "raise"
      [] p.net = "neterr" -> "raise"
      [] RaiseForStatus(p.status) -> "raise"
      [] p.body = "empty" -> "empty"
      [] p.body = "invalid" -> "raise"
      [] p.next # 0 -> "next"
      [] OTHER -> "last"
PageOutcomeErrorSwallowed(p) ==
    CASE p.net = "timeout" -> "timeout"
      [] p.net = "neterr" -> "timeout"
      [] RaiseForStatus(p.status) -> "timeout"
      [] p.body = "empty" -> "empty"
      [] p.body = "invalid" -> "raise"
      [] p.next # 0 -> "next"
      [] OTHER -> "last"
PageOutcomeEmptyParsed(p) ==
    CASE p.net = "timeout" -> "timeout"
      [] p.net = "neterr" -> "raise"
      [] RaiseForStatus(p.status) -> "raise"
      [] p.body \in {"empty", "invalid"} -> "raise"
      [] p.next # 0 -> "next"
      [] OTHER -> "last"
PageOutcome(p) ==
    CASE p.net = "timeout" -> "timeout"
      [] p.net = "neterr" -> "raise"
      [] RaiseForStatus(p.status) -> "raise"
      [] p.body = "empty" -> "empty"
      [] p.body = "invalid" -> "raise"
      [] p.next # 0 -> "next"
      [] OTHER -> "last"

(***************************************************************************)
(* make_request as one step of its caller: the result of running the loop  *)
(* against the pages `chain`, starting at URL 1.                           *)
(*   raised  an exception left make_request                                *)
(*   items   the list returned (when not raised)                           *)
(*   nreq    the requests issued                                           *)
(***************************************************************************)
RECURSIVE FetchFrom(_, _, _, _)
FetchFrom(chain, u, acc, n) ==
    LET p == chain[u]
        o == PageOutcome(p)
    IN CASE o = "raise" -> [raised |-> TRUE, items |-> <<>>, nreq |-> n + 1]
         [] o \in {"timeout", "empty"} -> [raised |-> FALSE, items |-> acc, nreq |-> n + 1]
         [] o = "last" -> [raised |-> FALSE, items |-> acc \o Items(p.data), nreq |-> n + 1]
         [] OTHER -> FetchFrom(chain, p.next, acc \o Items(p.data), n + 1)

MakeRequest(chain) == FetchFrom(chain, 1, <<>>, 0)

\* The aggregator before it runs (SpecFetch, SpecCourse, Spec)
NoFile == [exists |-> FALSE, header |-> <<>>, rows |-> <<>>]
CsvIdle ==
    /\ columns = <<>>
    /\ raw = <<>>
    /\ df = <<>>
    /\ out = NoFile
    /\ apc = "idle"
DirIdle ==
    /\ input_dir = <<>>
    /\ csv_files = <<>>
    /\ outputs = <<>>
    /\ ci = 0
    /\ ppc = "idle"
AggIdle == CsvIdle /\ DirIdle

\* The harvester and the driver before they run (SpecFetch, SpecAgg)
HarvestIdle ==
    /\ course_ids = <<>>
    /\ tasks = <<>>
    /\ files = <<>>
    /\ num_threads = 1
    /\ queue = <<>>
    /\ worker = <<0>>
    /\ submitted = 0
    /\ dpc = "idle"

(***************************************************************************)
(* SpecFetch: one call of make_request against a server that serves a      *)
(* chain of N pages; URL 1 is base_url/endpoint, page u links to u + 1.    *)
(***************************************************************************)
ElemsOf(u, n) == [j \in 1..n |-> PageElem(u, j)]

\* The kinds of exchange a server may answer a request with: an array of
\* 0..MaxItems elements (kinds 0..MaxItems), or one of the others
OtherKinds ==
    {"object", "scalar", "empty", "invalid", "304", "300 object", "404", "500",
     "timeout", "neterr"}
FetchKinds == {<<"array", n>> : n \in 0..MaxItems} \cup {<<k, 0>> : k \in OtherKinds}

\* The exchange of kind k at URL u, with the next link nxt
FetchPages(u, k, nxt) ==
    CASE k[1] = "array" -> Resp(200, "json", JList(ElemsOf(u, k[2])), nxt)
      [] k[1] = "object" -> Resp(200, "json", PageObject(u), nxt)
      [] k[1] = "scalar" -> Resp(200, "json", JScalar(u), nxt)
      [] k[1] = "empty" -> Resp(200, "empty", NoData, nxt)
      [] k[1] = "invalid" -> Resp(200, "invalid", NoData, nxt)
      [] k[1] = "304" -> Resp(304, "empty", NoData, nxt)
      [] k[1] = "300 object" -> Resp(300, "json", PageObject(u), nxt)
      [] k[1] = "404" -> Resp(404, "json", PageObject(u), nxt)
      [] k[1] = "500" -> Resp(500, "empty", NoData, nxt)
      [] k[1] = "timeout" -> TimeoutPage
      [] k[1] = "neterr" -> NetErrPage

\* The chain of pages of the kinds ks: page u < n carries the link to u + 1,
\* page n none
Chain(ks) ==
    [u \in 1..Len(ks) |-> FetchPages(u, ks[u], IF u < Len(ks) THEN u + 1 ELSE 0)]

ParamSets == {{}, {"per_page"}}

InitFetch ==
    /\ \E n \in 1..MaxPages : \E ks \in [1..n -> FetchKinds] : server = Chain(ks)
    /\ params \in ParamSets
    /\ url = 1                      \* url = f"{base_url}/{endpoint}"
    /\ current_params = params      \* original_params.copy()
    /\ all_items = <<>>
    /\ page_count = 0
    /\ fpc = "loop"
    /\ requests = <<>>
    /\ sleeps = 0
    /\ HarvestIdle
    /\ AggIdle

\* url = next_link (line 75)
NextUrlUnchanged(p, current) == current
NextUrl(p, current) == p.next

\* current_params = {} once a next link is followed (line 76)
NextLinkParamsKept(current) == current
NextLinkParams(current) == {}

\* One pass through the while body (lines 34-88): the request is issued and
\* its response handled.
FetchPage ==
    /\ fpc = "loop"
    /\ url # 0
    /\ page_count' = page_count + 1
    /\ requests' = Append(requests, <<url, current_params>>)
    /\ LET p == server[url]
           o == PageOutcome(p)
       IN /\ all_items' = IF o \in {"next", "last"}
                          THEN all_items \o Items(p.data) ELSE all_items
          /\ url' = IF o = "next" THEN NextUrl(p, url) ELSE url
          /\ current_params' = IF o = "next" THEN NextLinkParams(current_params)
                               ELSE current_params
          /\ fpc' = CASE o = "raise" -> "raised"
                      [] o = "next" -> "sleep"
                      [] OTHER -> "return"
    /\ UNCHANGED <<server, params, sleeps, hvars, avars>>

\* time.sleep(0.2) at the end of a pass that did not break (line 91)
Sleep ==
    /\ fpc = "sleep"
    /\ sleeps' = sleeps + 1
    /\ fpc' = "loop"
    /\ UNCHANGED <<server, params, url, current_params, all_items, page_count, requests,
                   hvars, avars>>

\* return all_items (line 93) after a break.  The loop is never left through
\* its condition: url is the non-empty first URL or a truthy next link.
Return ==
    /\ fpc = "return"
    /\ fpc' = "done"
    /\ UNCHANGED <<server, params, url, current_params, all_items, page_count,
                   requests, sleeps, hvars, avars>>

NextFetch == FetchPage \/ Sleep \/ Return

SpecFetch == InitFetch /\ [][NextFetch]_vars

(***************************************************************************)
(* Claims about make_request (checked under SpecFetch)                     *)
(***************************************************************************)
\* The items of a page as the fetcher's contract states them
ClaimedItems(p) == IF p.data.kind = "list" THEN p.data.elems ELSE <<p.data>>

RECURSIVE ConcatPages(_)
ConcatPages(k) == IF k = 0 THEN <<>> ELSE ConcatPages(k - 1) \o ClaimedItems(server[k])

\* Every page of the chain is a 2xx response whose body is a JSON array or a
\* JSON object
GoodChain ==
    \A u \in 1..Len(server) :
        /\ server[u].net = "resp" /\ server[u].status = 200 /\ server[u].body = "json"
        /\ server[u].data.kind \in {"list", "dict"}

PageOf(k) == server[requests[k][1]]

\* C1: when no request times out or errors and every page of the chain has a
\* JSON body, make_request does not raise and returns the items of page 1,
\* then page 2, ..., then page N, in order; an object body counts as one item.
C1_OrderedConcatenation ==
    GoodChain =>
        /\ fpc # "raised"
        /\ fpc = "done" => /\ all_items = ConcatPages(Len(server))
                           /\ Len(requests) = Len(server)

C1_Witness ==
    /\ fpc = "done" /\ GoodChain /\ Len(server) = 3
    /\ IsDict(server[1].data)
    /\ IsList(server[2].data) /\ Len(server[2].data.elems) = 2
    /\ IsList(server[3].data) /\ Len(server[3].data.elems) = 1

\* C2: when the request for page k times out, make_request does not raise,
\* issues no further request and returns the items of pages 1..k-1.
C2_TimeoutReturnsPartial ==
    \A k \in 1..Len(requests) :
        PageOf(k).net = "timeout" =>
            /\ Len(requests) = k
            /\ fpc \in {"return", "done"}
            /\ all_items = ConcatPages(k - 1)

C2_Witness ==
    /\ fpc = "done" /\ Len(requests) = 3 /\ PageOf(3).net = "timeout"
    /\ Len(all_items) = 3

C2_WitnessFirst ==
    fpc = "done" /\ Len(requests) = 1 /\ PageOf(1).net = "timeout" /\ all_items = <<>>

\* C3 as stated: when the request for page k fails with a network-level error
\* or gets a response whose status is not 2xx, make_request raises and issues
\* no further request.
C3_Original_Non2xxRaises ==
    \A k \in 1..Len(requests) :
        (\/ PageOf(k).net = "neterr"
         \/ PageOf(k).net = "resp" /\ PageOf(k).status \notin 200..299) =>
            fpc = "raised" /\ Len(requests) = k

\* C3 (amended): when the request for page k fails with a network-level error
\* or gets a 4xx or 5xx response, make_request raises instead of returning
\* and issues no further request.
C3_ErrorStatusRaises ==
    \A k \in 1..Len(requests) :
        (\/ PageOf(k).net = "neterr"
         \/ PageOf(k).net = "resp" /\ PageOf(k).status \in 400..599) =>
            fpc = "raised" /\ Len(requests) = k

C3_Witness ==
    /\ fpc = "raised" /\ Len(requests) = 2 /\ PageOf(2).net = "resp"
    /\ PageOf(2).status = 500 /\ Len(all_items) > 0

\* The loop run step by step ends as MakeRequest, the same loop taken as one
\* step of its caller, says: same exception or same list, same requests
MakeRequestIsTheLoop ==
    /\ fpc = "done" =>
          MakeRequest(server) =
              [raised |-> FALSE, items |-> all_items, nreq |-> Len(requests)]
    /\ fpc = "raised" =>
          /\ MakeRequest(server).raised
          /\ MakeRequest(server).nreq = Len(requests)

(***************************************************************************)
(* Timestamps.  An ISO-8601 timestamp string is kept as its fields; tz is  *)
(* the zone designator at its end: "Z", "+01:00", "-08:00", or "" when the *)
(* string carries none.  Text that is no timestamp is [text |-> ...].      *)
(***************************************************************************)
Stamp(y, mo, d, h, mi, tz) ==
    [y |-> y, mo |-> mo, d |-> d, h |-> h, mi |-> mi, tz |-> tz]
NotAStamp == [text |-> "n/a"]
IsStamp(ts) == "y" \in DOMAIN ts

\* Days from 1970-01-01 to the civil date y-mo-d, and back
DaysFromCivil(y, mo, d) ==
    LET yy == IF mo <= 2 THEN y - 1 ELSE y
        era == yy \div 400
        yoe == yy - era * 400
        mp == IF mo > 2 THEN mo - 3 ELSE mo + 9
        doy == (153 * mp + 2) \div 5 + d - 1
        doe == yoe * 365 + yoe \div 4 - yoe \div 100 + doy
    IN era * 146097 + doe - 719468

CivilFromDays(days) ==
    LET z == days + 719468
        era == z \div 146097
        doe == z - era * 146097
        yoe == (doe - doe \div 1460 + doe \div 36524 - doe \div 146096) \div 365
        doy == doe - (365 * yoe + yoe \div 4 - yoe \div 100)
        mp == (5 * doy + 2) \div 153
        d == doy - (153 * mp + 2) \div 5 + 1
        mo == IF mp < 10 THEN mp + 3 ELSE mp - 9
        y == yoe + era * 400 + (IF mo <= 2 THEN 1 ELSE 0)
    IN <<y, mo, d>>

\* The offset from UTC, in minutes, a zone designator names
TzOffset(tz) ==
    CASE tz = "Z" -> 0
      [] tz = "+01:00" -> 60
      [] tz = "-08:00" -> -480

\* pd.to_datetime(timestamp), then UTC assumed when the string names no zone
\* (lines 12-16): the instant in minutes since 1970-01-01T00:00Z
UtcMinutes(ts) ==
    (DaysFromCivil(ts.y, ts.mo, ts.d) * 1440 + ts.h * 60 + ts.mi)
    - (IF ts.tz = "" THEN 0 ELSE TzOffset(ts.tz))

\* pytz.timezone('America/Vancouver') (rules in force since 2007): PDT, UTC-7,
\* from the second Sunday of March 10:00Z to the first Sunday of November
\* 09:00Z, PST, UTC-8, otherwise.  1970-01-01 was a Thursday.
FirstSunday(y, mo) ==
    CHOOSE d \in 1..7 : (DaysFromCivil(y, mo, d) + 4) % 7 = 0
AnchorageOffset(utc) == -540
VancouverOffset(utc) ==
    LET y == CivilFromDays(utc \div 1440)[1]
        start == DaysFromCivil(y, 3, FirstSunday(y, 3) + 7) * 1440 + 600
        end == DaysFromCivil(y, 11, FirstSunday(y, 11)) * 1440 + 540
    IN IF utc >= start /\ utc < end THEN -420 ELSE -480

\* convert_to_vancouver_time(timestamp) followed by .dt.date (lines 45-48):
\* the calendar date in Vancouver
VancouverDay(ts) ==
    LET utc == UtcMinutes(ts)
    IN CivilFromDays((utc + VancouverOffset(utc)) \div 1440)

(***************************************************************************)
(* process_course                                                          *)
(***************************************************************************)
\* str.isalnum() on the characters course names are drawn from
AlnumChars == {"a", "b", "1", "2", "I", "n", "t", "r", "o", "C", "S", "0"}
IsAlnum(c) == c \in AlnumChars

\* A sanitization that writes one "_" for a run of other characters
RECURSIVE SafeNameCollapsed(_)
SafeNameCollapsed(name) ==
    IF name = <<>> THEN <<>>
    ELSE LET front == SafeNameCollapsed(SubSeq(name, 1, Len(name) - 1))
             c == name[Len(name)]
         IN IF IsAlnum(c) THEN Append(front, c)
            ELSE IF front # <<>> /\ front[Len(front)] = "_" THEN front
            ELSE Append(front, "_")

\* safe_name = "".join(c if c.isalnum() else "_" for c in course_name)
SafeName(name) == [j \in 1..Len(name) |-> IF IsAlnum(name[j]) THEN name[j] ELSE "_"]

\* filename = f"{course_id}_{safe_name}_activity.csv", as its pieces
FilenameWithoutId(course_id, name) == SafeName(name) \o <<"_activity.csv">>
Filename(course_id, name) ==
    <<ToString(course_id), "_">> \o SafeName(name) \o <<"_activity.csv">>

\* course.get("name", f"unknown-{course_id}")
CourseName(course, course_id) ==
    IF "name" \in DOMAIN course THEN course.name
    ELSE <<"u", "n", "k", "n", "o", "w", "n", "-", ToString(course_id)>>

\* bool(v) is False: an empty list, an empty dict, a zero/empty/null scalar
Falsy(v) ==
    \/ IsList(v) /\ v.elems = <<>>
    \/ IsDict(v) /\ DOMAIN v = {"kind"}
    \/ v.kind = "scalar" /\ v.v = 0

\* get_course on the result r of make_request: exc when it raises, else val
GetCourseEmptyDefault(r) ==
    IF r.raised THEN [exc |-> TRUE, val |-> NoData]
    ELSE [exc |-> FALSE, val |-> IF r.items = <<>> THEN [kind |-> "dict"] ELSE r.items[1]]
GetCourse(r) ==
    IF r.raised \/ r.items = <<>>
    THEN [exc |-> TRUE, val |-> NoData]
    ELSE [exc |-> FALSE, val |-> r.items[1]]

\* get_student_activity on the result r of make_request (which did not raise)
GetStudentActivityWholeList(r) == JList(r.items)
GetStudentActivity(r) == IF r.items # <<>> THEN r.items[1] ELSE JList(<<>>)

\* The rows of the CSV file
Header == [header |-> <<"student_id", "student_name", "date", "page_views">>]
Hole == [hole |-> TRUE]
Row(sid, sname, d, v) ==
    [student_id |-> sid, student_name |-> sname, date |-> d, page_views |-> v]

\* student.get('name', 'Unknown')
StudentName(student) == IF "name" \in DOMAIN student THEN student.name ELSE "Unknown"

\* A writer that stops after the first entry of the mapping
StudentRowsFirstEntry(student, activity_data) ==
    IF Falsy(activity_data) \/ ~IsDict(activity_data) THEN <<>>
    ELSE LET page_views == IF "page_views" \in DOMAIN activity_data
                           THEN activity_data.page_views ELSE <<>>
         IN [k \in 1..(IF page_views = <<>> THEN 0 ELSE 1) |->
                Row(student.id, StudentName(student), page_views[k].date,
                    page_views[k].views)]

\* The rows process_course writes for a student whose activity is activity_data
\* (lines 257-274): none when the data is missing, not a dict or has no views
StudentRows(student, activity_data) ==
    IF Falsy(activity_data) \/ ~IsDict(activity_data) THEN <<>>
    ELSE LET page_views == IF "page_views" \in DOMAIN activity_data
                           THEN activity_data.page_views ELSE <<>>
         IN [k \in 1..Len(page_views) |->
                Row(student.id, StudentName(student), page_views[k].date,
                    page_views[k].views)]

\* A file after `rows` are written through a handle whose offset is pos rows
WriteAt(content, pos, rows) ==
    LET n == IF Len(content) > pos + Len(rows) THEN Len(content) ELSE pos + Len(rows)
    IN [k \in 1..n |-> IF k > pos /\ k <= pos + Len(rows) THEN rows[k - pos]
                       ELSE IF k <= Len(content) THEN content[k] ELSE Hole]

\* open(path, 'w'): the file is created or truncated
Truncate(fs, path) ==
    [q \in DOMAIN fs \cup {path} |-> IF q = path THEN <<>> ELSE fs[q]]
PutRows(fs, path, pos, rows) ==
    [q \in DOMAIN fs \cup {path} |->
        IF q = path THEN WriteAt(IF path \in DOMAIN fs THEN fs[path] ELSE <<>>, pos, rows)
        ELSE fs[q]]

NewTask(c) ==
    [pc |-> "queued", runs |-> 0, course_id |-> c, resolved |-> FALSE, course_name |-> <<>>,
     output_path |-> <<>>, enumerated |-> FALSE, students |-> <<>>, i |-> 0,
     isopen |-> FALSE, pos |-> 0, result |-> "none", raised |-> FALSE,
     \* what the task has done so far (history)
     course_chain |-> <<>>, enroll_chain |-> <<>>, opened |-> FALSE, written |-> <<>>, attempts |-> <<>>,
     nreq |-> [course |-> 0, users |-> 0, activity |-> 0]]

\* The task ends: `how` is "abandoned" (course not resolved, lines 215-223),
\* "error" (the outer except, lines 285-286) or "completed" (line 283)
Ended(tk, how) == [tk EXCEPT !.pc = "done", !.result = how, !.isopen = FALSE]

\* Lines 278-281: an exception inside the inner try is logged and the loop
\* continues with the next student
InnerExceptAborts(tk) == Ended(tk, "error")
InnerExcept(tk) == tk

\* Lines 209-230: the course is resolved, or the task is abandoned
ResolveCourse(t, chains) ==
    /\ tasks[t].pc = "start"
    /\ \E chain \in chains :
         LET r == MakeRequest(chain)
             g == GetCourse(r)
             tk == [tasks[t] EXCEPT !.nreq.course = r.nreq, !.course_chain = chain]
         IN tasks' = [tasks EXCEPT ![t] =
               IF g.exc \/ ~IsDict(g.val) THEN Ended(tk, "abandoned")
               ELSE [tk EXCEPT !.pc = "students", !.resolved = TRUE,
                               !.course_name = CourseName(g.val, tk.course_id),
                               !.output_path =
                                   Filename(tk.course_id, CourseName(g.val, tk.course_id))]]
    /\ UNCHANGED <<files, fvars, dvars, avars>>

\* Lines 233-235: the students are enumerated; an exception of make_request
\* reaches the outer except
EnumerateStudents(t, chains) ==
    /\ tasks[t].pc = "students"
    /\ \E chain \in chains :
         LET r == MakeRequest(chain)
             tk == [tasks[t] EXCEPT !.nreq.users = r.nreq, !.enroll_chain = chain]
         IN tasks' = [tasks EXCEPT ![t] =
               IF r.raised THEN Ended(tk, "error")
               ELSE [tk EXCEPT !.pc = "open", !.enumerated = TRUE, !.students = r.items]]
    /\ UNCHANGED <<files, fvars, dvars, avars>>

\* Lines 238-243: the file is opened for writing and the header written; an
\* OSError of open reaches the outer except
OpenOutput(t, openFails) ==
    /\ tasks[t].pc = "open"
    /\ \E fails \in openFails :
         IF fails
         THEN /\ tasks' = [tasks EXCEPT ![t] = Ended(@, "error")]
              /\ UNCHANGED files
         ELSE /\ tasks' = [tasks EXCEPT ![t].pc = "loop", ![t].isopen = TRUE,
                                        ![t].opened = TRUE,
                                        ![t].pos = 1, ![t].written = <<Header>>]
              /\ files' = PutRows(Truncate(files, tasks[t].output_path),
                                  tasks[t].output_path, 0, <<Header>>)
    /\ UNCHANGED <<fvars, dvars, avars>>

\* Lines 246-281: one pass of the loop over the students.  Reading student['id']
\* is outside the inner try: its exception reaches the outer except.  Inside the
\* inner try an exception of the fetch or of writerow skips to the next student.
\* writeFaults: -1 for none, j >= 0 for an OSError of writerow after j rows.
ProcessStudent(t, chains, writeFaults) ==
    /\ tasks[t].pc = "loop"
    /\ tasks[t].i < Len(tasks[t].students)
    /\ LET tk == tasks[t]
           student == tk.students[tk.i + 1]
       IN IF ~IsDict(student) \/ "id" \notin DOMAIN student
          THEN /\ tasks' = [tasks EXCEPT ![t] = Ended(tk, "error")]
               /\ UNCHANGED files
          ELSE \E chain \in chains, wf \in writeFaults :
                 LET r == MakeRequest(chain)
                     all == IF r.raised THEN <<>>
                            ELSE StudentRows(student, GetStudentActivity(r))
                     faulty == ~r.raised /\ wf >= 0 /\ wf < Len(all)
                     rows == IF faulty THEN SubSeq(all, 1, wf) ELSE all
                     how == CASE r.raised -> "raised"
                              [] faulty -> "writefault"
                              [] all = <<>> -> "skipped"
                              [] OTHER -> "rows"
                     after == [tk EXCEPT !.i = tk.i + 1,
                                         !.pos = tk.pos + Len(rows),
                                         !.written = tk.written \o rows,
                                         !.nreq.activity = tk.nreq.activity + r.nreq,
                                         !.attempts = Append(tk.attempts,
                                             [student |-> student, how |-> how,
                                              chain |-> chain])]
                 IN /\ tasks' = [tasks EXCEPT ![t] =
                          IF r.raised \/ faulty THEN InnerExcept(after) ELSE after]
                    /\ files' = IF rows = <<>> THEN files
                                ELSE PutRows(files, tk.output_path, tk.pos, rows)
    /\ UNCHANGED <<fvars, dvars, avars>>

\* Lines 281-283: the loop is over, the file is closed, the course completed
CompleteCourse(t) ==
    /\ tasks[t].pc = "loop"
    /\ tasks[t].i = Len(tasks[t].students)
    /\ tasks' = [tasks EXCEPT ![t] = Ended(@, "completed")]
    /\ UNCHANGED <<files, fvars, dvars, avars>>

(***************************************************************************)
(* The server as process_course meets it: the chains of pages each of its  *)
(* three endpoints may answer with.                                        *)
(***************************************************************************)
OnePage(st, b, d) == <<Resp(st, b, d, 0)>>
Json(d) == OnePage(200, "json", d)

CourseDict(c, name) == [kind |-> "dict", id |-> c, name |-> name]
NamelessCourse(c) == [kind |-> "dict", id |-> c]
CourseNames == {<<"a", ":", "b">>, <<"a", " ", "b">>}

\* GET courses/{id}
FailingCourseChains(c) ==
    {Json(JList(<<>>)), Json(JList(<<JScalar(1)>>)), Json(JScalar(1)),
     OnePage(200, "empty", NoData), OnePage(200, "invalid", NoData),
     OnePage(304, "empty", NoData), OnePage(404, "json", NamelessCourse(c)),
     OnePage(500, "empty", NoData), <<TimeoutPage>>, <<NetErrPage>>,
     <<Resp(200, "json", NamelessCourse(c), 2), NetErrPage>>}
ResolvingCourseChains(c) ==
    {Json(CourseDict(c, n)) : n \in CourseNames}
    \cup {Json(NamelessCourse(c)),
          <<Resp(200, "json", NamelessCourse(c), 2), TimeoutPage>>}
CourseChains(c) == FailingCourseChains(c) \cup ResolvingCourseChains(c)

\* GET courses/{id}/users: the j-th user record is well formed, lacks a name
\* or lacks an id
Student(j) == [kind |-> "dict", id |-> j, name |-> "S"]
NamelessStudent(j) == [kind |-> "dict", id |-> j]
IdlessStudent == [kind |-> "dict", name |-> "S"]
StudentRecords(j) == {Student(j), NamelessStudent(j), IdlessStudent}

RECURSIVE StudentListsFrom(_, _)
StudentListsFrom(j, n) ==
    IF j > n THEN {<<>>}
    ELSE {<<st>> \o rest : st \in StudentRecords(j), rest \in StudentListsFrom(j + 1, n)}
StudentLists == UNION {StudentListsFrom(1, n) : n \in 0..MaxStudents}

EnrollChains ==
    {Json(JList(l)) : l \in StudentLists}
    \cup {OnePage(500, "empty", NoData), <<TimeoutPage>>,
          <<Resp(200, "json", JList(<<Student(1)>>), 2),
            Resp(200, "json", JList(<<Student(2)>>), 0)>>,
          <<Resp(200, "json", JList(<<Student(1)>>), 2), TimeoutPage>>,
          <<Resp(200, "json", JList(<<Student(1)>>), 2), TimeoutPage,
            Resp(200, "json", JList(<<Student(2)>>), 0)>>,
          <<Resp(200, "json", JList(<<Student(1)>>), 2), NetErrPage>>}

\* GET courses/{id}/analytics/users/{user_id}/activity
Hour1 == Stamp(2024, 1, 1, 23, 0, "Z")
Hour2 == Stamp(2024, 1, 2, 8, 0, "Z")
Views1 == <<[date |-> Hour1, views |-> 5]>>
Views2 == <<[date |-> Hour1, views |-> 5], [date |-> Hour2, views |-> 3]>>
Activity(pv) == [kind |-> "dict", page_views |-> pv]

ActivityChains ==
    {Json(Activity(Views1)), Json(Activity(Views2)), Json(Activity(<<>>)),
     Json([kind |-> "dict", participations |-> <<>>]), Json(JScalar(1)),
     <<TimeoutPage>>, OnePage(500, "empty", NoData)}

(***************************************************************************)
(* SpecCourse: one call process_course(course_id, ...) into an empty       *)
(* output directory.                                                       *)
(***************************************************************************)
FetchIdle ==
    /\ server = <<>>
    /\ params = {}
    /\ url = 0
    /\ current_params = {}
    /\ all_items = <<>>
    /\ page_count = 0
    /\ fpc = "idle"
    /\ requests = <<>>
    /\ sleeps = 0

InitCourse ==
    /\ FetchIdle
    /\ AggIdle
    /\ course_ids = <<1>>
    /\ tasks = <<[NewTask(course_ids[1]) EXCEPT !.pc = "start", !.runs = 1]>>
    /\ files = <<>>
    /\ num_threads = 1
    /\ queue = <<>>
    /\ worker = <<0>>
    /\ submitted = 0
    /\ dpc = "idle"

NextCourse ==
    \/ ResolveCourse(1, CourseChains(tasks[1].course_id))
    \/ EnumerateStudents(1, EnrollChains)
    \/ OpenOutput(1, {FALSE, TRUE})
    \/ ProcessStudent(1, ActivityChains, {-1, 1})
    \/ CompleteCourse(1)

SpecCourse == InitCourse /\ [][NextCourse]_vars

(***************************************************************************)
(* Claims about process_course (checked under SpecCourse)                  *)
(***************************************************************************)
Looked(t) == tasks[t].pc \notin {"queued", "start"}

\* The course request raised, timed out at once, or returned nothing or
\* something that is not an object
LookupFails(chain) ==
    LET r == MakeRequest(chain)
    IN \/ r.raised
       \/ chain[1].net = "timeout"
       \/ r.items = <<>>
       \/ r.items[1].kind # "dict"

\* C4: a task whose course metadata lookup fails (the request raises, times
\* out, or returns an empty or non-object result) creates no output file,
\* issues no enrollment or activity request and returns without raising.
C4_FailedLookupAbandons ==
    \A t \in DOMAIN tasks :
        (Looked(t) /\ LookupFails(tasks[t].course_chain)) =>
            /\ tasks[t].pc = "done" /\ ~tasks[t].raised
            /\ tasks[t].nreq.users = 0 /\ tasks[t].nreq.activity = 0
            /\ ~tasks[t].opened /\ tasks[t].written = <<>>
            /\ DOMAIN files = {}

C4_Witness ==
    /\ tasks[1].pc = "done" /\ tasks[1].course_chain = <<TimeoutPage>>
    /\ DOMAIN files = {}

\* The rows the harvester's contract gives a student whose activity is the
\* response chain: one per entry of the page_views mapping of the object
ClaimedRows(student, chain) ==
    LET pv == chain[1].data.page_views
    IN [k \in 1..Len(pv) |->
          [student_id |-> student.id,
           student_name |-> IF "name" \in DOMAIN student THEN student.name ELSE "Unknown",
           date |-> pv[k].date, page_views |-> pv[k].views]]

FetchRaised(a) == MakeRequest(a.chain).raised
HasViews(a) ==
    /\ Len(a.chain) = 1 /\ a.chain[1].net = "resp" /\ a.chain[1].status = 200
    /\ a.chain[1].body = "json" /\ a.chain[1].data.kind = "dict"
    /\ "page_views" \in DOMAIN a.chain[1].data
    /\ a.chain[1].data.page_views # <<>>

RECURSIVE ClaimedFile(_, _)
ClaimedFile(attempts, k) ==
    IF k = 0 THEN <<Header>>
    ELSE ClaimedFile(attempts, k - 1)
         \o (IF FetchRaised(attempts[k]) THEN <<>>
             ELSE ClaimedRows(attempts[k].student, attempts[k].chain))

WellFormed(students) ==
    \A k \in 1..Len(students) : IsDict(students[k]) /\ "id" \in DOMAIN students[k]

\* The case of C5: the course resolved, the students enumerated (each record
\* with its id), the file opened, and every student attempted so far either
\* had its activity fetch raise or has a non-empty page-view mapping, written
\* without an I/O error
C5_Case(t) ==
    /\ tasks[t].resolved /\ tasks[t].enumerated /\ tasks[t].opened
    /\ WellFormed(tasks[t].students)
    /\ \A k \in 1..Len(tasks[t].attempts) :
          /\ tasks[t].attempts[k].how # "writefault"
          /\ FetchRaised(tasks[t].attempts[k]) \/ HasViews(tasks[t].attempts[k])

\* C5: in that case process_course attempts every student in order, and the
\* file is the header followed by the rows of exactly the students whose
\* fetch did not raise, in enumeration order (the header alone when all raise).
C5_FailedStudentsSkipped ==
    \A t \in DOMAIN tasks :
        (tasks[t].pc = "done" /\ C5_Case(t)) =>
            /\ tasks[t].result = "completed"
            /\ Len(tasks[t].attempts) = Len(tasks[t].students)
            /\ \A k \in 1..Len(tasks[t].students) :
                  tasks[t].attempts[k].student = tasks[t].students[k]
            /\ tasks[t].output_path \in DOMAIN files
            /\ files[tasks[t].output_path] =
                  ClaimedFile(tasks[t].attempts, Len(tasks[t].attempts))

C5_Witness ==
    /\ tasks[1].pc = "done" /\ C5_Case(1) /\ Len(tasks[1].students) = 3
    /\ ~FetchRaised(tasks[1].attempts[1])
    /\ FetchRaised(tasks[1].attempts[2])
    /\ ~FetchRaised(tasks[1].attempts[3])
    /\ files[tasks[1].output_path] =
          <<Header, Row(1, "S", Hour1, 5), Row(3, "S", Hour1, 5), Row(3, "S", Hour2, 3)>>

C5_WitnessAllFail ==
    /\ tasks[1].pc = "done" /\ C5_Case(1) /\ Len(tasks[1].students) = 3
    /\ \A k \in 1..3 : FetchRaised(tasks[1].attempts[k])
    /\ files[tasks[1].output_path] = <<Header>>

\* C6 as stated: once the course is resolved, no later failure ends the task
\* before every enumerated student has been attempted.
C6_Original_OnlyLookupAborts ==
    \A t \in DOMAIN tasks :
        (tasks[t].pc = "done" /\ tasks[t].resolved /\ tasks[t].enumerated) =>
            Len(tasks[t].attempts) = Len(tasks[t].students)

\* C6 (amended): once the course is resolved, the students are enumerated,
\* the output file is opened and every student record has an id, no failure
\* of fetching or writing a student's activity ends the task before every
\* enumerated student has been attempted; the task completes.
C6_StudentFailuresIsolated ==
    \A t \in DOMAIN tasks :
        (/\ tasks[t].pc = "done" /\ tasks[t].resolved /\ tasks[t].enumerated
         /\ tasks[t].opened /\ WellFormed(tasks[t].students)) =>
            /\ tasks[t].result = "completed"
            /\ Len(tasks[t].attempts) = Len(tasks[t].students)

C6_Witness ==
    /\ tasks[1].pc = "done" /\ tasks[1].result = "completed"
    /\ Len(tasks[1].students) = 3
    /\ tasks[1].attempts[1].how = "raised"
    /\ tasks[1].attempts[2].how = "writefault"
    /\ tasks[1].attempts[3].how = "rows"

\* The other ways a resolved task ends early: all through the outer except,
\* none raising to the caller
C6_AbortsAreCaught ==
    \A t \in DOMAIN tasks :
        (tasks[t].pc = "done" /\ tasks[t].result = "error") =>
            /\ tasks[t].resolved /\ ~tasks[t].raised
            /\ \/ ~tasks[t].enumerated
               \/ ~tasks[t].opened
               \/ ~WellFormed(tasks[t].students)

(***************************************************************************)
(* main: the course ids are taken from --course-ids or from a search, one  *)
(* process_course task per entry is submitted to a ThreadPoolExecutor of   *)
(* num_threads worker threads, and leaving the with block joins them.      *)
(***************************************************************************)
\* The lists of n course ids, up to renaming of the ids: the first id is 1
\* and an id not listed before is the next number, so every pattern of
\* repeats among n entries occurs once
LargestOf(l) == IF l = <<>> THEN 0 ELSE CHOOSE m \in 1..Len(l) :
                    (\E k \in 1..Len(l) : l[k] = m) /\ \A k \in 1..Len(l) : l[k] <= m

RECURSIVE IdListsOf(_)
IdListsOf(n) ==
    IF n = 0 THEN {<<>>}
    ELSE {Append(l, c) : l \in IdListsOf(n - 1), c \in 1..n}
\* --course-ids: nargs='+', one or more ids, repeats allowed
IdLists ==
    {l \in UNION {IdListsOf(n) : n \in 1..MaxCourses} :
        \A k \in 1..Len(l) : l[k] <= LargestOf(SubSeq(l, 1, k - 1)) + 1}

\* GET accounts/{id}/courses
SearchChains ==
    {Json(JList([k \in 1..Len(l) |-> CourseDict(l[k], <<"a", ":", "b">>)])) : l \in IdLists}
    \cup {Json(JList(<<>>)), <<TimeoutPage>>, OnePage(500, "empty", NoData)}

Dispatch(ids) ==
    /\ course_ids' = ids
    /\ tasks' = [t \in 1..Len(ids) |-> NewTask(ids[t])]
    /\ dpc' = "map"

\* Lines 326-328: args.course_ids is given
UseCourseIds ==
    /\ dpc = "start"
    /\ \E ids \in IdLists : Dispatch(ids)
    /\ UNCHANGED <<avars, fvars, files, num_threads, queue, worker, submitted>>

\* Lines 330-351: the ids are those of the courses a search returns; an
\* exception of the search leaves main, an empty result ends it
SearchCourses ==
    /\ dpc = "start"
    /\ \E chain \in SearchChains :
         LET r == MakeRequest(chain)
         IN IF r.raised THEN dpc' = "raised" /\ UNCHANGED <<course_ids, tasks>>
            ELSE IF r.items = <<>> THEN dpc' = "returned" /\ UNCHANGED <<course_ids, tasks>>
            ELSE Dispatch([k \in 1..Len(r.items) |-> r.items[k].id])
    /\ UNCHANGED <<avars, fvars, files, num_threads, queue, worker, submitted>>

\* Line 363: executor.map submits one work item per course id, in order
Submit ==
    /\ dpc = "map"
    /\ submitted < Len(course_ids)
    /\ submitted' = submitted + 1
    /\ queue' = Append(queue, submitted + 1)
    /\ UNCHANGED <<avars, fvars, files, tasks, course_ids, num_threads, worker, dpc>>

\* Line 356, leaving the with block: executor.shutdown(wait=True)
Shutdown ==
    /\ dpc = "map"
    /\ submitted = Len(course_ids)
    /\ dpc' = "join"
    /\ UNCHANGED <<avars, fvars, files, tasks, course_ids, num_threads, queue, worker, submitted>>

\* shutdown(wait=True) returns when every worker thread has ended, which a
\* worker does only with the queue empty and its task finished
AllWorkersJoinedNoWait == TRUE
AllWorkersJoined == queue = <<>> /\ \A w \in DOMAIN worker : worker[w] = 0

\* Line 365: print("All courses processed!")
Report ==
    /\ dpc = "join"
    /\ AllWorkersJoined
    /\ dpc' = "reported"
    /\ UNCHANGED <<avars, fvars, files, tasks, course_ids, num_threads, queue, worker, submitted>>

\* A worker thread takes the next work item and calls process_course
WorkerTake(w) ==
    /\ worker[w] = 0
    /\ queue # <<>>
    /\ worker' = [worker EXCEPT ![w] = Head(queue)]
    /\ queue' = Tail(queue)
    /\ tasks' = [tasks EXCEPT ![Head(queue)].pc = "start",
                              ![Head(queue)].runs = @ + 1]
    /\ UNCHANGED <<avars, fvars, files, course_ids, num_threads, submitted, dpc>>

\* process_course has returned: the worker thread is free again
WorkerFinish(w) ==
    /\ worker[w] # 0
    /\ tasks[worker[w]].pc = "done"
    /\ worker' = [worker EXCEPT ![w] = 0]
    /\ UNCHANGED <<avars, fvars, files, tasks, course_ids, num_threads, queue, submitted, dpc>>

\* What the server answers the tasks of a batch
BatchCourseChains(c) == {Json(CourseDict(c, <<"a", ":", "b">>)), <<TimeoutPage>>}
BatchEnrollChains == {Json(JList(<<Student(1)>>)), OnePage(500, "empty", NoData)}
BatchActivityChains == {Json(Activity(Views1)), OnePage(500, "empty", NoData)}

Init ==
    /\ FetchIdle
    /\ AggIdle
    /\ course_ids = <<>>
    /\ tasks = <<>>
    /\ files = <<>>
    /\ num_threads \in 1..MaxThreads
    /\ queue = <<>>
    /\ worker = [w \in 1..num_threads |-> 0]
    /\ submitted = 0
    /\ dpc = "start"

Next ==
    \/ UseCourseIds
    \/ SearchCourses
    \/ Submit
    \/ Shutdown
    \/ Report
    \/ \E w \in DOMAIN worker : WorkerTake(w)
    \/ \E w \in DOMAIN worker : WorkerFinish(w)
    \/ \E t \in DOMAIN tasks : ResolveCourse(t, BatchCourseChains(tasks[t].course_id))
    \/ \E t \in DOMAIN tasks : EnumerateStudents(t, BatchEnrollChains)
    \/ \E t \in DOMAIN tasks : OpenOutput(t, {FALSE})
    \/ \E t \in DOMAIN tasks : ProcessStudent(t, BatchActivityChains, {-1})
    \/ \E t \in DOMAIN tasks : CompleteCourse(t)

Spec == Init /\ [][Next]_vars

(***************************************************************************)
(* Claims about main (checked under Spec)                                  *)
(***************************************************************************)
\* C7: 'All courses processed!' is reported only after every dispatched
\* process_course task has finished: none is running or not yet started.
C7_ReportAfterAllTasks ==
    dpc = "reported" =>
        /\ submitted = Len(course_ids)
        /\ queue = <<>>
        /\ \A w \in DOMAIN worker : worker[w] = 0
        /\ \A t \in DOMAIN tasks : tasks[t].pc = "done"

C7_Witness ==
    /\ dpc = "reported" /\ num_threads = 1 /\ Len(course_ids) = 2
    /\ tasks[1].result = "abandoned" /\ tasks[2].result = "completed"

\* A harvest in which nothing failed
NonFailing(t) ==
    /\ tasks[t].result = "completed"
    /\ \A k \in 1..Len(tasks[t].attempts) : tasks[t].attempts[k].how \in {"rows", "skipped"}

\* The file of task t holds what task t wrote, which is what it writes when it
\* is the only task of the batch
OwnOutput(t) ==
    /\ tasks[t].output_path \in DOMAIN files
    /\ files[tasks[t].output_path] = tasks[t].written

BatchOutcome ==
    /\ \A t \in DOMAIN tasks : tasks[t].runs = 1 /\ tasks[t].pc = "done"
    /\ \A t \in DOMAIN tasks : NonFailing(t) => OwnOutput(t)

PairwiseDistinct(ids) ==
    \A j, k \in 1..Len(ids) : j # k => ids[j] # ids[k]

\* C8 as stated: for every list of course ids, when the batch is reported
\* done process_course has run once per entry, and every non-failing course's
\* file holds what that course's task wrote, whatever the other tasks did.
C8_Original_TasksIndependent == dpc = "reported" => BatchOutcome

\* C8 (amended): the same for every list of pairwise distinct course ids.
C8_DistinctTasksIndependent ==
    (dpc = "reported" /\ PairwiseDistinct(course_ids)) => BatchOutcome

C8_Witness ==
    /\ dpc = "reported" /\ num_threads = 2 /\ Len(course_ids) = 2
    /\ PairwiseDistinct(course_ids)
    /\ tasks[1].result = "error"
    /\ NonFailing(2) /\ Len(tasks[2].written) = 2 /\ OwnOutput(2)

NoSharedOpenFile ==
    \A t1, t2 \in DOMAIN tasks :
        (t1 # t2 /\ tasks[t1].isopen /\ tasks[t2].isopen) =>
            tasks[t1].output_path # tasks[t2].output_path

\* C9 as stated: for every list of course ids the driver accepts, no two
\* tasks have the same output file open for writing.
C9_Original_NoSharedOpenFile == NoSharedOpenFile

\* C9 (amended): for every list of pairwise distinct course ids, no two tasks
\* have the same output file open for writing, and the tasks' file names are
\* pairwise distinct.
C9_DistinctIdsNoSharedOpenFile ==
    PairwiseDistinct(course_ids) =>
        /\ NoSharedOpenFile
        /\ \A t1, t2 \in DOMAIN tasks :
              (t1 # t2 /\ tasks[t1].resolved /\ tasks[t2].resolved) =>
                  tasks[t1].output_path # tasks[t2].output_path

C9_Witness ==
    /\ Len(course_ids) = 2 /\ PairwiseDistinct(course_ids)
    /\ tasks[1].isopen /\ tasks[2].isopen
    /\ tasks[1].course_name = tasks[2].course_name

(***************************************************************************)
(* process_csv                                                             *)
(***************************************************************************)
\* pd.read_csv reads these strings as missing values (NaN)
NAStrings == {"", "NA", "NaN", "null", "NULL", "N/A", "n/a", "nan", "#N/A"}
NaN == "NaN"
ReadName(name) == IF name \in NAStrings THEN NaN ELSE name

\* df = pd.read_csv(file_path)
ReadCsvRows(rows) ==
    [k \in 1..Len(rows) |-> [rows[k] EXCEPT !.student_name = ReadName(@)]]

AggHeader == <<"student_id", "student_name", "day", "page_views">>
AggRow(sid, sname, day, v) ==
    [student_id |-> sid, student_name |-> sname, day |-> day, page_views |-> v]

\* The order of the group keys (student_id, student_name, day) groupby sorts
\* by; student names are ordered as strings, here on the names of the model
NameRank(name) == CASE name = "A" -> 1 [] name = "B" -> 2 [] OTHER -> 0
DayLeq(a, b) ==
    \/ a[1] < b[1]
    \/ a[1] = b[1] /\ a[2] < b[2]
    \/ a[1] = b[1] /\ a[2] = b[2] /\ a[3] <= b[3]
KeyLeq(a, b) ==
    \/ a[1] < b[1]
    \/ a[1] = b[1] /\ NameRank(a[2]) < NameRank(b[2])
    \/ a[1] = b[1] /\ a[2] = b[2] /\ DayLeq(a[3], b[3])

RECURSIVE SortedKeys(_)
SortedKeys(keys) ==
    IF keys = {} THEN <<>>
    ELSE LET m == CHOOSE x \in keys : \A y \in keys : KeyLeq(x, y)
         IN <<m>> \o SortedKeys(keys \ {m})

KeyOf(row) == <<row.student_id, row.student_name, row.day>>

RECURSIVE SumViews(_, _, _)
SumViews(rows, k, key) ==
    IF k = 0 THEN 0
    ELSE SumViews(rows, k - 1, key)
         + (IF KeyOf(rows[k]) = key THEN rows[k].page_views ELSE 0)

\* df.groupby(['student_id', 'student_name', 'day'], as_index=False)
\*   ['page_views'].sum(): one row per key, keys sorted, rows whose key holds a
\* missing value dropped (dropna=True)
GroupBySum(rows) ==
    LET keys == {KeyOf(rows[k]) : k \in {j \in 1..Len(rows) : rows[j].student_name # NaN}}
        sorted == SortedKeys(keys)
    IN [g \in 1..Len(sorted) |->
          AggRow(sorted[g][1], sorted[g][2], sorted[g][3],
                 SumViews(rows, Len(rows), sorted[g]))]

\* pd.read_csv of a file without any line raises EmptyDataError ("No columns
\* to parse from file")
EmptyDataErrorIgnored(cols) == FALSE
EmptyDataError(cols) == cols = <<>>

\* Lines 30-33: the file is read; df.empty when it has no data row
ReadCsv ==
    /\ apc = "start"
    /\ IF EmptyDataError(columns)
       THEN apc' = "raised" /\ UNCHANGED df
       ELSE /\ df' = ReadCsvRows(raw)
            /\ apc' = IF raw = <<>> THEN "empty" ELSE "convert"
    /\ UNCHANGED <<columns, raw, out, pvars, fvars, hvars>>

\* Lines 33-42: no data rows, the output holds the header alone
WriteEmpty ==
    /\ apc = "empty"
    /\ out' = [exists |-> TRUE, header |-> AggHeader, rows |-> <<>>]
    /\ apc' = "done"
    /\ UNCHANGED <<columns, raw, df, pvars, fvars, hvars>>

\* df['day']: the Vancouver day of every row's date
WithDays(rows) ==
    [k \in 1..Len(rows) |->
        [student_id |-> rows[k].student_id,
         student_name |-> rows[k].student_name,
         date |-> rows[k].date,
         page_views |-> rows[k].page_views,
         day |-> VancouverDay(rows[k].date)]]

\* Lines 45-48: every date is converted and its Vancouver day taken; text
\* that pd.to_datetime cannot parse raises
ConvertDates ==
    /\ apc = "convert"
    /\ IF \E k \in 1..Len(df) : ~IsStamp(df[k].date)
       THEN apc' = "raised" /\ UNCHANGED df
       ELSE /\ df' = WithDays(df)
            /\ apc' = "group"
    /\ UNCHANGED <<columns, raw, out, pvars, fvars, hvars>>

\* Lines 51-59: the groups are summed and saved
GroupAndSave ==
    /\ apc = "group"
    /\ out' = [exists |-> TRUE, header |-> AggHeader, rows |-> GroupBySum(df)]
    /\ apc' = "done"
    /\ UNCHANGED <<columns, raw, df, pvars, fvars, hvars>>

(***************************************************************************)
(* SpecAgg: one call process_csv(file_path, output_dir) on a raw CSV file  *)
(***************************************************************************)
RawStamps ==
    {Stamp(2024, 1, 1, 23, 30, "Z"), Stamp(2024, 1, 2, 8, 0, "Z"),
     Stamp(2024, 1, 2, 7, 0, ""), Stamp(2024, 7, 1, 6, 30, "Z"), NotAStamp}
RawRows ==
    {Row(sid, sname, d, v) : sid \in {1, 2}, sname \in {"A", ""}, d \in RawStamps,
                             v \in {3, 5}}


InitAgg ==
    /\ FetchIdle
    /\ HarvestIdle
    /\ DirIdle
    /\ \/ columns = Header.header /\ \E n \in 0..MaxRows : raw \in [1..n -> RawRows]
       \/ columns = <<>> /\ raw = <<>>
    /\ df = <<>>
    /\ out = NoFile
    /\ apc = "start"

NextAgg == ReadCsv \/ WriteEmpty \/ ConvertDates \/ GroupAndSave

SpecAgg == InitAgg /\ [][NextAgg]_vars

(***************************************************************************)
(* Claims about process_csv (checked under SpecAgg)                        *)
(***************************************************************************)
C10_Input ==
    <<Row(1, "A", Stamp(2024, 1, 1, 23, 30, "Z"), 5),
      Row(1, "A", Stamp(2024, 1, 2, 8, 0, "Z"), 3)>>

\* C10 as stated: the records (1,"A","2024-01-01T23:30:00Z",5) and
\* (1,"A","2024-01-02T08:00:00Z",3) both fall on local day 2024-01-01 and
\* aggregate to the single row (1,"A","2024-01-01",8).
C10_Original_SingleRow ==
    (raw = C10_Input /\ apc = "done") =>
        out.rows = <<AggRow(1, "A", <<2024, 1, 1>>, 8)>>

\* C10 (amended): the first record falls on local day 2024-01-01 and the
\* second, at local midnight, on 2024-01-02; the aggregated output is the two
\* rows (1,"A","2024-01-01",5) and (1,"A","2024-01-02",3).
C10_TwoLocalDays ==
    (raw = C10_Input /\ apc = "done") =>
        /\ out.exists /\ out.header = AggHeader
        /\ out.rows = <<AggRow(1, "A", <<2024, 1, 1>>, 5),
                        AggRow(1, "A", <<2024, 1, 2>>, 3)>>

C10_Witness == raw = C10_Input /\ apc = "done" /\ Len(out.rows) = 2

\* The sum of page_views over the rows of student sid
RECURSIVE StudentSum(_, _, _)
StudentSum(rows, k, sid) ==
    IF k = 0 THEN 0
    ELSE StudentSum(rows, k - 1, sid)
         + (IF rows[k].student_id = sid THEN rows[k].page_views ELSE 0)

RawStudents == {raw[k].student_id : k \in 1..Len(raw)}

SumPreserved ==
    \A sid \in RawStudents :
        StudentSum(out.rows, Len(out.rows), sid) = StudentSum(raw, Len(raw), sid)

\* C11 as stated: for every raw CSV that process_csv accepts and every
\* student, the sum of page_views over the student's aggregated rows equals
\* the sum over the student's raw rows.
C11_Original_SumPreserved == apc = "done" => SumPreserved

\* A student whose name the harvester wrote as the empty string: read_csv
\* reads the name as missing and groupby drops the student's rows.
C11_Witness ==
    /\ apc = "done" /\ Len(raw) = 1 /\ raw[1].student_name = ""
    /\ out.exists /\ out.rows = <<>>

\* The sum is preserved for the files in which no name reads as missing.
C11_SumPreservedForNames ==
    (apc = "done" /\ \A k \in 1..Len(raw) : raw[k].student_name \notin NAStrings)
        => SumPreserved

C11_WitnessTwoDays ==
    /\ apc = "done" /\ Len(raw) = 2 /\ Len(out.rows) = 2
    /\ raw[1].student_id = raw[2].student_id
    /\ \A k \in 1..2 : raw[k].student_name = "A"

AggEnded == apc \in {"done", "raised"}
HeaderOnlyOutput == out = [exists |-> TRUE, header |-> AggHeader, rows |-> <<>>]

\* C12 as stated: for every input CSV with zero data rows, process_csv does
\* not raise and writes an output holding exactly the header student_id,
\* student_name, day, page_views and zero data rows.
C12_Original_EmptyInputHeaderOnly ==
    (raw = <<>> /\ AggEnded) => (apc = "done" /\ HeaderOnlyOutput)

\* An input file without any line (zero bytes): read_csv raises and no output
\* is written.
C12_Witness == columns = <<>> /\ raw = <<>> /\ apc = "raised" /\ ~out.exists

\* The claim holds of the input files that hold a header line and no data row.
C12_HeaderLineOnly ==
    (columns # <<>> /\ raw = <<>> /\ AggEnded) => (apc = "done" /\ HeaderOnlyOutput)

C12_WitnessHeaderLineOnly == columns # <<>> /\ raw = <<>> /\ apc = "done" /\ out.exists

(***************************************************************************)
(* process_directory                                                       *)
(***************************************************************************)
\* process_csv(file_path, output_dir) as one step on the file f: whether it
\* raises, and the output file it writes when it does not
ProcessCsv(f) ==
    IF EmptyDataError(f.columns) THEN [raised |-> TRUE, out |-> NoFile]
    ELSE IF f.rows = <<>>
    THEN [raised |-> FALSE,
          out |-> [exists |-> TRUE, header |-> AggHeader, rows |-> <<>>]]
    ELSE IF \E k \in 1..Len(f.rows) : ~IsStamp(f.rows[k].date)
    THEN [raised |-> TRUE, out |-> NoFile]
    ELSE [raised |-> FALSE,
          out |-> [exists |-> TRUE, header |-> AggHeader,
                   rows |-> GroupBySum(WithDays(ReadCsvRows(f.rows)))]]

\* File names: <<stem, extension>>
Exts == {".csv", ".CSV", ".txt"}
Lower(ext) == IF ext = ".CSV" THEN ".csv" ELSE ext
\* f.lower().endswith('.csv')
IsCsvName(name) == Lower(name[2]) = ".csv"
\* f"processed_{input_filename}"
OutputFilename(name) == <<"processed_">> \o name

\* except Exception as e: the error is printed and the loop goes on
ExceptExceptionReraises(pc) == "raised"
ExceptException(pc) == pc

\* Lines 65-79: the directory is listed and the CSV files are kept
ListCsvFiles ==
    /\ ppc = "start"
    /\ LET kept == SelectSeq(input_dir, LAMBDA file : IsCsvName(file.name))
       IN /\ csv_files' = [k \in 1..Len(kept) |-> kept[k].name]
          /\ ppc' = IF kept = <<>> THEN "returned" ELSE "loop"
    /\ UNCHANGED <<input_dir, outputs, ci, csvvars, fvars, hvars>>

\* Lines 82-87: one iteration of the loop, process_csv on the next file
ProcessFile ==
    /\ ppc = "loop"
    /\ ci < Len(csv_files)
    /\ LET csv_file == csv_files[ci + 1]
           file == CHOOSE f \in {input_dir[k] : k \in 1..Len(input_dir)} :
                       f.name = csv_file
           r == ProcessCsv(file)
       IN IF r.raised
          THEN ppc' = ExceptException("loop") /\ UNCHANGED outputs
          ELSE /\ ppc' = "loop"
               /\ outputs' = [q \in DOMAIN outputs \cup {OutputFilename(csv_file)} |->
                                IF q = OutputFilename(csv_file) THEN r.out
                                ELSE outputs[q]]
    /\ ci' = ci + 1
    /\ UNCHANGED <<input_dir, csv_files, csvvars, fvars, hvars>>

\* Line 89: the loop is over
AllFilesProcessed ==
    /\ ppc = "loop"
    /\ ci = Len(csv_files)
    /\ ppc' = "done"
    /\ UNCHANGED <<input_dir, csv_files, outputs, ci, csvvars, fvars, hvars>>

(***************************************************************************)
(* SpecDir: one call process_directory(input_dir, output_dir)              *)
(***************************************************************************)
MaxFiles == 3

\* The contents of a file of the input directory: no line at all, the header
\* line alone, rows the aggregator accepts, a row whose date is not a date
DirContents ==
    {[columns |-> <<>>, rows |-> <<>>],
     [columns |-> Header.header, rows |-> <<>>],
     [columns |-> Header.header, rows |-> <<Row(1, "A", Stamp(2024, 1, 1, 23, 30, "Z"), 5)>>],
     [columns |-> Header.header,
      rows |-> <<Row(1, "A", Stamp(2024, 1, 1, 23, 30, "Z"), 5),
                 Row(1, "A", Stamp(2024, 1, 2, 8, 0, "Z"), 3)>>],
     [columns |-> Header.header, rows |-> <<Row(2, "A", NotAStamp, 3)>>]}

InitDir ==
    /\ FetchIdle
    /\ HarvestIdle
    /\ CsvIdle
    /\ \E n \in 0..MaxFiles :
         \E exts \in [1..n -> Exts] : \E cs \in [1..n -> DirContents] :
            input_dir = [k \in 1..n |->
                           [name |-> <<k, exts[k]>>, columns |-> cs[k].columns,
                            rows |-> cs[k].rows]]
    /\ csv_files = <<>>
    /\ outputs = <<>>
    /\ ci = 0
    /\ ppc = "start"

NextDir == ListCsvFiles \/ ProcessFile \/ AllFilesProcessed

SpecDir == InitDir /\ [][NextDir]_vars

(***************************************************************************)
(* Claims about process_directory (checked under SpecDir)                  *)
(***************************************************************************)
Fails(file) == ProcessCsv(file).raised
NonFailingCsv == SelectSeq(input_dir, LAMBDA file : IsCsvName(file.name) /\ ~Fails(file))

\* The output directory after process_csv has run on files[1..k], none of
\* which fails
RECURSIVE OutputsOf(_, _)
OutputsOf(fs, k) ==
    IF k = 0 THEN <<>>
    ELSE LET before == OutputsOf(fs, k - 1)
             name == OutputFilename(fs[k].name)
         IN [q \in DOMAIN before \cup {name} |->
                IF q = name THEN ProcessCsv(fs[k]).out ELSE before[q]]

\* C13: whichever CSV files make process_csv raise, process_directory does
\* not raise, goes through every CSV file of the directory, and leaves the
\* output directory as a run on the non-failing files alone leaves it.
C13_FailingFilesIsolated ==
    /\ ppc # "raised"
    /\ ppc = "done" =>
          /\ ci = Len(csv_files)
          /\ \A k \in 1..Len(input_dir) :
                IsCsvName(input_dir[k].name) =>
                    \E j \in 1..Len(csv_files) : csv_files[j] = input_dir[k].name
          /\ outputs = OutputsOf(NonFailingCsv, Len(NonFailingCsv))

C13_Witness ==
    /\ ppc = "done" /\ Len(csv_files) = 3
    /\ Fails(input_dir[1]) /\ ~Fails(input_dir[2]) /\ Fails(input_dir[3])
    /\ input_dir[1].columns = <<>> /\ input_dir[3].columns # <<>>
    /\ DOMAIN outputs = {OutputFilename(input_dir[2].name)}
    /\ Len(outputs[OutputFilename(input_dir[2].name)].rows) = 2

\* process_csv one statement a step (SpecAgg) ends as ProcessCsv says
ProcessCsvIsTheSteps ==
    AggEnded =>
        LET r == ProcessCsv([columns |-> columns, rows |-> raw])
        IN (apc = "raised") = r.raised /\ out = r.out

(***************************************************************************)
(* SpecName: process_course up to the file name, over the course names of  *)
(* up to MaxNameLen characters and the name "Intro: CS 101!"               *)
(***************************************************************************)
MaxNameLen == 3
NameChars == {"a", "1", ":", " ", "_"}
IntroCS101 == <<"I", "n", "t", "r", "o", ":", " ", "C", "S", " ", "1", "0", "1", "!">>
NameStrings ==
    UNION {[1..n -> NameChars] : n \in 0..MaxNameLen} \cup {IntroCS101}

InitName ==
    /\ FetchIdle
    /\ AggIdle
    /\ \E c \in 1..MaxCourses : course_ids = <<c>>
    /\ tasks = <<[NewTask(course_ids[1]) EXCEPT !.pc = "start", !.runs = 1]>>
    /\ files = <<>>
    /\ num_threads = 1
    /\ queue = <<>>
    /\ worker = <<0>>
    /\ submitted = 0
    /\ dpc = "idle"

NextName ==
    \E name \in NameStrings :
        ResolveCourse(1, {Json(CourseDict(tasks[1].course_id, name))})

SpecName == InitName /\ [][NextName]_vars

\* C14: the sanitized fragment has the length of the course name, the name's
\* character at every alphanumeric position and "_" at every other one;
\* "Intro: CS 101!" gives "Intro__CS_101_"; the output file name is
\* {course_id}_{fragment}_activity.csv.
C14_SanitizedOneForOne ==
    tasks[1].resolved =>
        LET name == tasks[1].course_name
            path == tasks[1].output_path
            fragment == SubSeq(path, 3, Len(path) - 1)
        IN /\ Len(path) = Len(name) + 3
           /\ path[1] = ToString(tasks[1].course_id) /\ path[2] = "_"
           /\ path[Len(path)] = "_activity.csv"
           /\ \A j \in 1..Len(name) :
                 fragment[j] = IF name[j] \in AlnumChars THEN name[j] ELSE "_"
           /\ name = IntroCS101 =>
                 fragment = <<"I", "n", "t", "r", "o", "_", "_", "C", "S", "_",
                              "1", "0", "1", "_">>

C14_Witness ==
    /\ tasks[1].resolved /\ tasks[1].course_name = IntroCS101
    /\ Len(tasks[1].output_path) = 17

C14_WitnessRun ==
    /\ tasks[1].resolved /\ tasks[1].course_name = <<":", " ", "_">>
    /\ tasks[1].output_path = <<"2", "_", "_", "_", "_", "_activity.csv">>

(***************************************************************************)
(* More claims about make_request (checked under SpecFetch)                *)
(***************************************************************************)
\* C15: the first request goes to base/endpoint (URL 1) with the caller's
\* parameters; every later request goes to the next link of the response
\* before it, with no parameters.
C15_NextLinkWithoutParams ==
    \A k \in 1..Len(requests) :
        IF k = 1 THEN requests[k] = <<1, params>>
        ELSE requests[k] = <<server[requests[k - 1][1]].next, {}>>

C15_Witness ==
    /\ fpc = "done" /\ params = {"per_page"} /\ Len(requests) = 3
    /\ requests[3] = <<3, {}>>

\* The pages received so far with their items taken
Received == {k \in 1..Len(requests) : PageOutcome(PageOf(k)) \in {"next", "last"}}
Followed == {k \in 1..Len(requests) : PageOutcome(PageOf(k)) = "next"}

\* C16 as stated: every page received is followed by one delay before
\* make_request issues another request or returns.
C16_Original_DelayAfterEveryPage ==
    fpc \in {"loop", "done"} => sleeps = Cardinality(Received)

\* A single page without a next link: make_request returns without a delay.
C16_Witness ==
    /\ fpc = "done" /\ Len(requests) = 1 /\ Received = {1} /\ sleeps = 0

\* The delay is applied once after each page whose next link is followed,
\* and not after the page that ends the loop.
C16_DelayBeforeNextRequest ==
    fpc # "sleep" => sleeps = Cardinality(Followed)

C16_WitnessTwoDelays == fpc = "done" /\ Len(requests) = 3 /\ sleeps = 2

EmptyBody(p) == p.net = "resp" /\ p.body = "empty"

EndsWithoutError(k) ==
    /\ fpc # "raised"
    /\ Len(requests) = k
    /\ fpc = "done" => all_items = ConcatPages(k - 1)

\* C17 as stated: if the response for page k has an empty body, make_request
\* does not raise, issues no further request and returns the items of pages
\* 1..k-1.
C17_Original_EmptyBodyEnds ==
    \A k \in 1..Len(requests) : EmptyBody(PageOf(k)) => EndsWithoutError(k)

\* C17 (amended): the same for a response whose status is not 4xx/5xx; an
\* error status raises whatever the body.
C17_EmptyBodyEndsUnlessErrorStatus ==
    \A k \in 1..Len(requests) :
        (EmptyBody(PageOf(k)) /\ ~RaiseForStatus(PageOf(k).status)) =>
            EndsWithoutError(k)

C17_Witness ==
    /\ fpc = "done" /\ Len(requests) = 2
    /\ EmptyBody(PageOf(2)) /\ PageOf(2).status = 200
    /\ Len(all_items) = 2

C17_WitnessErrorStatus ==
    /\ fpc = "raised" /\ Len(requests) = 1
    /\ EmptyBody(PageOf(1)) /\ PageOf(1).status = 500

(***************************************************************************)
(* More claims about process_course (checked under SpecCourse)             *)
(***************************************************************************)
\* The activity result of an attempt whose fetch did not raise, and the
\* cases in which the harvester's contract gives the student no row
ActivityResult(a) == GetStudentActivity(MakeRequest(a.chain))
NoPageViews(a) ==
    LET res == ActivityResult(a)
    IN \/ res = JList(<<>>)                        \* missing (timed out, empty)
       \/ res.kind # "dict"                        \* not an object
       \/ "page_views" \notin DOMAIN res           \* no page_views mapping
       \/ res.page_views = <<>>                    \* an empty one

\* The rows of the contract for a result with a non-empty page_views mapping
EntryRows(student, res) ==
    [k \in 1..Len(res.page_views) |->
        [student_id |-> student.id,
         student_name |-> IF "name" \in DOMAIN student THEN student.name ELSE "Unknown",
         date |-> res.page_views[k].date, page_views |-> res.page_views[k].views]]

\* The step of task t is an attempt on a student whose fetch did not raise
\* and whose rows were written without an I/O error
StudentStep(t) ==
    /\ t \in DOMAIN tasks /\ tasks[t].pc = "loop"
    /\ Len(tasks'[t].attempts) = Len(tasks[t].attempts) + 1
    /\ ~FetchRaised(tasks'[t].attempts[Len(tasks'[t].attempts)])
    /\ tasks'[t].attempts[Len(tasks'[t].attempts)].how # "writefault"

\* C18: for a student whose activity result is missing, not an object, or
\* without a non-empty page_views mapping, process_course writes no row and
\* goes on to the next student; otherwise it writes one row per entry of the
\* mapping, with the student's id and name and the entry's timestamp and
\* count.
C18_RowsPerViewEntry ==
    [][\A t \in DOMAIN tasks :
         StudentStep(t) =>
            LET a == tasks'[t].attempts[Len(tasks'[t].attempts)]
                path == tasks[t].output_path
                new == IF NoPageViews(a) THEN <<>>
                       ELSE EntryRows(a.student, ActivityResult(a))
            IN /\ tasks'[t].pc = "loop" /\ tasks'[t].i = tasks[t].i + 1
               /\ a.student = tasks[t].students[tasks[t].i + 1]
               /\ tasks'[t].written = tasks[t].written \o new
               /\ files'[path] = files[path] \o new]_vars

C18_Witness ==
    /\ Len(tasks) = 1 /\ Len(tasks[1].attempts) = 3 /\ tasks[1].pc = "loop"
    /\ tasks[1].attempts[1].chain = <<TimeoutPage>>
    /\ tasks[1].attempts[2].chain = Json(JScalar(1))
    /\ tasks[1].attempts[3].chain = Json(Activity(Views2))
    /\ tasks[1].attempts[3].student = NamelessStudent(3)
    /\ files[tasks[1].output_path] =
          <<Header, Row(3, "Unknown", Hour1, 5), Row(3, "Unknown", Hour2, 3)>>

(***************************************************************************)
(* SpecFetchLive: SpecFetch with every step of the call eventually taken   *)
(* (requests.get returns or raises within its timeout, time.sleep returns) *)
(***************************************************************************)
SpecFetchLive == SpecFetch /\ WF_vars(NextFetch)

FetchEnded == fpc \in {"done", "raised"}

\* A response that ends the call: a timeout, an error, an empty body
EndsCall(p) ==
    \/ p.net \in {"timeout", "neterr"}
    \/ p.status >= 400
    \/ p.body \in {"empty", "invalid"}

AtMostOncePerUrl ==
    /\ Len(requests) <= Len(server)
    /\ \A j, k \in 1..Len(requests) : j # k => requests[j][1] # requests[k][1]
    /\ \A k \in 1..Len(requests) : EndsCall(PageOf(k)) => Len(requests) = k

\* C19: against a chain of N pages, make_request ends after at most N
\* requests: every URL of the chain is requested at most once, and no request
\* follows a timeout, an error or an empty body.
C19_EndsWithinChain == []AtMostOncePerUrl /\ <>FetchEnded

C19_Witness ==
    /\ fpc = "done" /\ Len(server) = 3 /\ Len(requests) = 2
    /\ PageOf(2).net = "timeout"

C19_WitnessWholeChain ==
    /\ fpc = "done" /\ Len(server) = 3 /\ Len(requests) = 3

\* The enrollment chain times out at page k: pages 1..k-1 are 2xx JSON pages,
\* each linking to the next, and the request for page k times out
TimesOutAt(chain, k) ==
    /\ k \in 1..Len(chain)
    /\ chain[k].net = "timeout"
    /\ \A j \in 1..(k - 1) :
          /\ chain[j].net = "resp" /\ chain[j].status = 200 /\ chain[j].body = "json"
          /\ chain[j].next = j + 1

RECURSIVE ListedBefore(_, _)
ListedBefore(chain, k) ==
    IF k = 1 THEN <<>>
    ELSE ListedBefore(chain, k - 1) \o ClaimedItems(chain[k - 1])

\* The header and the rows of the contract for the students attempted
RECURSIVE FileOfAttempts(_, _)
FileOfAttempts(attempts, n) ==
    IF n = 0 THEN <<Header>>
    ELSE FileOfAttempts(attempts, n - 1)
         \o (IF FetchRaised(attempts[n]) \/ NoPageViews(attempts[n]) THEN <<>>
             ELSE EntryRows(attempts[n].student, ActivityResult(attempts[n])))

\* open() raised: the students were enumerated and the task ended unopened
OpenFailed(t) == tasks[t].pc = "done" /\ tasks[t].enumerated /\ ~tasks[t].opened

\* The case of C20 for task t and page k: the course resolved, the enrollment
\* timed out at page k, and nothing else went wrong (the listed records carry
\* an id, the file opened, no I/O error on a row)
C20_Case(t, k) ==
    /\ tasks[t].pc = "done" /\ tasks[t].resolved
    /\ TimesOutAt(tasks[t].enroll_chain, k)
    /\ WellFormed(ListedBefore(tasks[t].enroll_chain, k))
    /\ ~OpenFailed(t)
    /\ \A j \in 1..Len(tasks[t].attempts) : tasks[t].attempts[j].how # "writefault"

\* C20: when the enrollment enumeration of a resolved course times out on
\* page k, process_course raises nothing, completes the course, attempts
\* exactly the students of pages 1..k-1 and leaves the header plus their rows.
C20_EnrollmentTimeoutKeepsPartial ==
    \A t \in DOMAIN tasks : \A k \in 1..MaxPages :
        C20_Case(t, k) =>
            LET listed == ListedBefore(tasks[t].enroll_chain, k)
            IN /\ ~tasks[t].raised /\ tasks[t].result = "completed"
               /\ tasks[t].nreq.users = k
               /\ tasks[t].students = listed
               /\ Len(tasks[t].attempts) = Len(listed)
               /\ \A j \in 1..Len(listed) : tasks[t].attempts[j].student = listed[j]
               /\ files[tasks[t].output_path] =
                     FileOfAttempts(tasks[t].attempts, Len(listed))

C20_Witness ==
    /\ C20_Case(1, 2) /\ Len(tasks[1].enroll_chain) = 3
    /\ files[tasks[1].output_path] = <<Header, Row(1, "S", Hour1, 5)>>

C20_WitnessFirstPage ==
    /\ C20_Case(1, 1) /\ files[tasks[1].output_path] = <<Header>>

====
